---- MODULE Spec2Model ----
(***************************************************************************)
(* Model of the appliance-state decision engine of Power-Optimizer-API     *)
(* (energy_optimizer.py) and of its callers.  Under Spec one behaviour is   *)
(* one call of optimize_room: the initial state holds the arguments of the *)
(* call, the action OptimizeRoom is the whole call, and the final state    *)
(* holds what the call returned or raised.  Under SpecApp one behaviour is *)
(* one request served by app.py or by the command line, and under          *)
(* SpecConcurrent two threads call optimize_room at the same time.         *)
(* SpecDetect and SpecAccept serve sequences of POST /detect and of POST   *)
(* /optimize/accept requests against the database.                         *)
(*                                                                         *)
(* Numbers.  Temperatures are Python floats; here a temperature is an      *)
(* integer count of 1/TempScale degrees, so 28.5 C is 57 at TempScale 2.   *)
(* An Optional value is a sequence: <<>> is None and <<v>> is the value v. *)
(***************************************************************************)
EXTENDS Integers, Sequences, FiniteSets, TLC

VARIABLES room, occupancy, appliances, outside_temp_c, pc, result, now,
          request, supabase, providers, invoked, response, calls, heap,
          db, LAST_DB_INSERT, served

\* The arguments of the engine, the state of a request, the concurrent calls.
engine_args == <<room, occupancy, appliances, outside_temp_c>>

app_vars == <<request, supabase, providers, invoked, response>>

thread_vars == <<calls, heap>>

\* The database, the rate limiter's table and the requests served.
service_vars == <<db, LAST_DB_INSERT, served>>

vars == <<engine_args, pc, result, now, app_vars, thread_vars, service_vars>>

(***************************************************************************)
(* Bounds of the model.                                                    *)
(***************************************************************************)
MaxAppliances == 2
MaxPeople == 7
MaxUnits == 2
MinTempC == 17
MaxTempC == 37
TempScale == 2

(***************************************************************************)
(* Optional values and small arithmetic helpers.                           *)
(***************************************************************************)
None == <<>>

Some(v) == <<v>>

Min(a, b) == IF a <= b THEN a ELSE b

Max(a, b) == IF a >= b THEN a ELSE b

\* math.ceil(n / d) for d > 0
Ceil(n, d) == -((-n) \div d)

\* Python's round() of the rational n / d (d > 0): to the nearest integer,
\* a tie going to the even neighbour.
RoundHalfEven(n, d) ==
    LET q == n \div d
        r == n % d
    IN  IF 2 * r < d THEN q
        ELSE IF 2 * r > d THEN q + 1
        ELSE IF q % 2 = 0 THEN q ELSE q + 1

\* str.upper() on the appliance type tags the model uses.
upper(s) ==
    CASE s = "ac" -> "AC"
      [] s = "Fan" -> "FAN"
      [] OTHER -> s

(***************************************************************************)
(* Program constants.                                                      *)
(***************************************************************************)
MTA_1 == [name |-> "MTA_1", room_id |-> 1]

AC_SETPOINT_FALLBACK_C == 24

\* PEOPLE_PER_UNIT.get(appliance_type, 1)
PEOPLE_PER_UNIT(appliance_type) ==
    CASE appliance_type = "AC" -> 6
      [] appliance_type = "FAN" -> 4
      [] appliance_type = "LIGHT" -> 2
      [] OTHER -> 1

(***************************************************************************)
(* The setpoint calculator.                                                *)
(***************************************************************************)
\* As clamp_level, with the clamp left out.
clamp_level_unclamped(level) == level

clamp_level(level) == Max(1, Min(10, level))

\* value = 25 - floor((outside_temp_c - 25) / 4), clamped to [22, 25];
\* the result is in whole degrees.
tbase_formula(temp) ==
    IF temp = None THEN AC_SETPOINT_FALLBACK_C
    ELSE LET value == 25 - ((temp[1] - 25 * TempScale) \div (4 * TempScale))
         IN  Max(22, Min(25, value))

\* level = 10 - round((setpoint_c - 22.0) / 3.0 * 9.0)
setpoint_to_level(setpoint_c) ==
    clamp_level(10 - RoundHalfEven((setpoint_c - 22) * 9, 3))

(***************************************************************************)
(* Appliance state helpers.                                                *)
(***************************************************************************)
\* As compute_units_on, without the cap at the units available.
compute_units_on_uncapped(appliance_type, available_units, people) ==
    LET per_unit_cap == PEOPLE_PER_UNIT(appliance_type)
    IN  IF people <= 0 THEN 0
        ELSE Max(1, Ceil(people, per_unit_cap))

compute_units_on(appliance_type, available_units, people) ==
    LET per_unit_cap == PEOPLE_PER_UNIT(appliance_type)
    IN  IF people <= 0 THEN 0
        ELSE Max(1, Min(available_units, Ceil(people, per_unit_cap)))

\* As below_threshold, with the AC threshold at one occupant.
below_threshold_ac_from_one(appliance_type, people) ==
    \/ people < 1 /\ appliance_type \in {"LIGHT", "FAN"}
    \/ people < 1 /\ appliance_type = "AC"

\* As below_threshold, with the LIGHT and FAN threshold at two occupants.
below_threshold_fan_from_two(appliance_type, people) ==
    \/ people < 2 /\ appliance_type \in {"LIGHT", "FAN"}
    \/ people < 2 /\ appliance_type = "AC"

\* The two early returns of _decide_appliance_state: LIGHT and FAN need one
\* occupant, AC needs two.
below_threshold(appliance_type, people) ==
    \/ people < 1 /\ appliance_type \in {"LIGHT", "FAN"}
    \/ people < 2 /\ appliance_type = "AC"

\* As decide_appliance_state, with the level taken from the room's load factor.
decide_appliance_state_by_load_factor(appliance, people, load_factor) ==
    LET appliance_type == upper(appliance.appliance_type)
        units_on == compute_units_on(appliance_type,
                                     appliance.number_of_appliances, people)
        level == clamp_level(RoundHalfEven(10 * load_factor[1], load_factor[2]))
    IN  IF below_threshold(appliance_type, people)
          THEN [should_run |-> FALSE, level |-> None, units_on |-> 0]
        ELSE IF ~appliance.adjustable
          THEN [should_run |-> TRUE, level |-> None, units_on |-> units_on]
        ELSE [should_run |-> TRUE, level |-> Some(level), units_on |-> units_on]

\* load_per_unit = min(1.0, people / (units_on * per_unit_cap)) if units_on
\* else 0; level = _clamp_level(round(load_per_unit * 10))
decide_appliance_state(appliance, people, load_factor) ==
    LET appliance_type == upper(appliance.appliance_type)
        units_on == compute_units_on(appliance_type,
                                     appliance.number_of_appliances, people)
        per_unit_cap == PEOPLE_PER_UNIT(appliance_type)
        level == IF units_on = 0 THEN clamp_level(0)
                 ELSE IF people >= units_on * per_unit_cap THEN clamp_level(10)
                 ELSE clamp_level(RoundHalfEven(10 * people,
                                                units_on * per_unit_cap))
    IN  IF below_threshold(appliance_type, people)
          THEN [should_run |-> FALSE, level |-> None, units_on |-> 0]
        ELSE IF ~appliance.adjustable
          THEN [should_run |-> TRUE, level |-> None, units_on |-> units_on]
        ELSE [should_run |-> TRUE, level |-> Some(level), units_on |-> units_on]

\* The double product max_power_watts * (level / 10) * units lands just below
\* the exact integer max_power_watts * level * units / 10 for these arguments
\* (level / 10 is not a binary fraction), and int() then truncates to one
\* less.  The set lists every such case with max_power_watts among the
\* ratings of the model and units <= 8.
FloatBelow ==
    {<<9, 6, 5>>} \cup {<<90, 7, u>> : u \in 1..8}

\* per_unit = max_power_watts * (level / 10); int(per_unit * units)
estimate_power(appliance, level, units_on) ==
    LET units == Max(1, units_on)
    IN  IF appliance.adjustable /\ level # None /\ level[1] # 0
          THEN LET exact == appliance.max_power_watts * level[1] * units
               IN  IF <<appliance.max_power_watts, level[1], units>> \in FloatBelow
                     THEN (exact \div 10) - 1
                     ELSE exact \div 10
        ELSE appliance.max_power_watts * units

\* As apply_temperature_bias, with the two hot biases exchanged.
apply_temperature_bias_hot_swapped(level, temp) ==
    IF temp = None THEN level
    ELSE LET t == temp[1]
             bias == IF t >= 32 * TempScale THEN 1
                     ELSE IF t >= 28 * TempScale THEN 2
                     ELSE IF t <= 18 * TempScale THEN -2
                     ELSE IF t <= 22 * TempScale THEN -1
                     ELSE 0
         IN  clamp_level(level + bias)

apply_temperature_bias(level, temp) ==
    IF temp = None THEN level
    ELSE LET t == temp[1]
             bias == IF t >= 32 * TempScale THEN 2
                     ELSE IF t >= 28 * TempScale THEN 1
                     ELSE IF t <= 18 * TempScale THEN -2
                     ELSE IF t <= 22 * TempScale THEN -1
                     ELSE 0
         IN  clamp_level(level + bias)

(***************************************************************************)
(* Input validation and the optimizer.                                     *)
(***************************************************************************)
NoError == [raised |-> "none", about |-> "none"]

ValueError(what) == [raised |-> "ValueError", about |-> what]

\* The index of the first appliance of another room, 0 when there is none.
first_mismatch(apps, room_id) ==
    LET bad == {i \in 1..Len(apps) : apps[i].room_id # room_id}
    IN  IF bad = {} THEN 0 ELSE CHOOSE i \in bad : \A j \in bad : i <= j

\* As validate_inputs, with the loop over the appliances left out.
validate_inputs_skip_appliances(rm, occ, apps, seating_area) ==
    IF rm.room_id # seating_area.room_id THEN ValueError("room.room_id")
    ELSE IF occ.room_id # seating_area.room_id THEN ValueError("occupancy.room_id")
    ELSE NoError

\* As validate_inputs, with the loop comparing appliance_id for room_id.
validate_inputs_appliance_id(rm, occ, apps, seating_area) ==
    IF rm.room_id # seating_area.room_id THEN ValueError("room.room_id")
    ELSE IF occ.room_id # seating_area.room_id THEN ValueError("occupancy.room_id")
    ELSE IF \E i \in 1..Len(apps) : apps[i].appliance_id # seating_area.room_id
      THEN ValueError("appliance.room_id")
    ELSE NoError

validate_inputs(rm, occ, apps, seating_area) ==
    IF rm.room_id # seating_area.room_id THEN ValueError("room.room_id")
    ELSE IF occ.room_id # seating_area.room_id THEN ValueError("occupancy.room_id")
    ELSE IF first_mismatch(apps, seating_area.room_id) # 0
      THEN ValueError("appliance.room_id")
    ELSE NoError

OffState(appliance, now_iso) ==
    [appliance_id |-> appliance.appliance_id,
     appliance_type |-> appliance.appliance_type,
     status |-> "OFF", level |-> None, setpoint_c |-> None,
     estimated_power_watts |-> 0, updated_at |-> now_iso]

\* As empty_room_state, with the level given to an adjustable AC only.
empty_room_state_adjustable_only(appliance, temp, now_iso) ==
    LET setpoint_c == tbase_formula(temp)
        maintenance_level == setpoint_to_level(setpoint_c)
        level == IF appliance.adjustable THEN Some(maintenance_level) ELSE None
    IN  IF upper(appliance.appliance_type) = "AC"
          THEN [appliance_id |-> appliance.appliance_id,
                appliance_type |-> appliance.appliance_type,
                status |-> "ON",
                level |-> level,
                setpoint_c |-> Some(setpoint_c),
                estimated_power_watts |-> estimate_power(appliance, level, 1),
                updated_at |-> now_iso]
        ELSE OffState(appliance, now_iso)

\* As empty_room_state, without the base load: an empty room turns the AC
\* off like everything else.
empty_room_state_all_off(appliance, temp, now_iso) ==
    OffState(appliance, now_iso)

\* One iteration of the base-load loop (people == 0).
empty_room_state(appliance, temp, now_iso) ==
    LET setpoint_c == tbase_formula(temp)
        maintenance_level == setpoint_to_level(setpoint_c)
    IN  IF upper(appliance.appliance_type) = "AC"
          THEN [appliance_id |-> appliance.appliance_id,
                appliance_type |-> appliance.appliance_type,
                status |-> "ON",
                level |-> Some(maintenance_level),
                setpoint_c |-> Some(setpoint_c),
                estimated_power_watts |->
                    estimate_power(appliance, Some(maintenance_level), 1),
                updated_at |-> now_iso]
        ELSE OffState(appliance, now_iso)

\* One iteration of the normal occupancy loop.
occupied_state(appliance, people, load_factor, temp, now_iso) ==
    LET d == decide_appliance_state(appliance, people, load_factor)
        level == IF d.level # None
                   THEN Some(apply_temperature_bias(d.level[1], temp))
                   ELSE None
        is_ac == upper(appliance.appliance_type) = "AC"
    IN  IF ~d.should_run THEN OffState(appliance, now_iso)
        ELSE [appliance_id |-> appliance.appliance_id,
              appliance_type |-> appliance.appliance_type,
              status |-> "ON",
              level |-> level,
              setpoint_c |-> IF is_ac THEN Some(tbase_formula(temp)) ELSE None,
              estimated_power_watts |-> estimate_power(appliance, level, d.units_on),
              updated_at |-> now_iso]

\* The list the base-load loop builds: one append per appliance, in order.
empty_room_states(apps, temp, now_iso) ==
    [i \in 1..Len(apps) |-> empty_room_state(apps[i], temp, now_iso)]

\* As recommendations, with the append of an OFF state left out.
recommendations_skip_off(apps, people, load_factor, temp, now_iso) ==
    SelectSeq([i \in 1..Len(apps) |->
                  occupied_state(apps[i], people, load_factor, temp, now_iso)],
              LAMBDA s : s.status = "ON")

\* The list the normal occupancy loop builds: one append per appliance.
recommendations(apps, people, load_factor, temp, now_iso) ==
    [i \in 1..Len(apps) |-> occupied_state(apps[i], people, load_factor, temp, now_iso)]

\* load_factor = min(1.0, people / room.max_capacity), as <<numerator, denominator>>
load_factor_of(people, max_capacity) ==
    IF people >= max_capacity THEN <<1, 1>> ELSE <<people, max_capacity>>

\* What a call returns: the error it raises, or the list of ApplianceState.
optimize_room(rm, occ, apps, temp, seating_area, now_iso) ==
    LET err == validate_inputs(rm, occ, apps, seating_area)
        people == occ.people_count
    IN  IF err.raised # "none" THEN [error |-> err, states |-> <<>>]
        ELSE IF rm.max_capacity <= 0
          THEN [error |-> ValueError("room.max_capacity"), states |-> <<>>]
        ELSE IF people = 0
          THEN [error |-> NoError, states |-> empty_room_states(apps, temp, now_iso)]
        ELSE [error |-> NoError,
              states |-> recommendations(apps, people,
                                         load_factor_of(people, rm.max_capacity),
                                         temp, now_iso)]

(***************************************************************************)
(* The calls the model explores.                                           *)
(***************************************************************************)
RoomIds == {1, 2}

ApplianceIds == {7, 8}

ApplianceTypes == {"AC", "ac", "FAN", "Fan", "LIGHT", "UPS"}

PowerRatings == {1, 9, 40, 75, 90, 2000}

Temperatures ==
    {None} \cup {Some(t) : t \in (MinTempC * TempScale)..(MaxTempC * TempScale)}

\* -1 is the callers' "unknown" sentinel, -5 the count the test suite passes.
PeopleCounts == {-5} \cup ((-1)..MaxPeople)

Occupancies(ids, counts) ==
    [room_id : ids, people_count : counts, detected_at : {0}, confidence : {100}]

\* Calls with one appliance, over every numeric attribute of it.
UnitCalls ==
    [room : [room_id : {1}, max_capacity : {20}],
     occupancy : Occupancies({1}, PeopleCounts),
     appliances : {<<a>> : a \in [appliance_id : {7}, room_id : {1},
                                  appliance_type : ApplianceTypes,
                                  max_power_watts : PowerRatings,
                                  adjustable : BOOLEAN,
                                  number_of_appliances : 0..MaxUnits]},
     outside_temp_c : Temperatures]

ListAppliances ==
    [appliance_id : ApplianceIds, room_id : RoomIds,
     appliance_type : {"AC", "FAN", "LIGHT"},
     max_power_watts : {75}, adjustable : {TRUE}, number_of_appliances : {2}]

RECURSIVE SeqsUpTo(_, _)
SeqsUpTo(S, n) ==
    IF n = 0 THEN {<<>>}
    ELSE LET shorter == SeqsUpTo(S, n - 1)
         IN  shorter \cup {Append(s, x) : s \in {t \in shorter : Len(t) = n - 1}, x \in S}

\* Calls with a list of appliances, over the room ids of every record.
ListCalls ==
    [room : [room_id : RoomIds, max_capacity : {0, 20}],
     occupancy : Occupancies(RoomIds, {-1, 0, 1, 2}),
     appliances : SeqsUpTo(ListAppliances, MaxAppliances),
     outside_temp_c : {None}]

\* The room and the three appliances of the test suite's setUp.
TestAppliances ==
    << [appliance_id |-> 1, room_id |-> 1, appliance_type |-> "AC",
        max_power_watts |-> 2000, adjustable |-> TRUE, number_of_appliances |-> 2],
       [appliance_id |-> 2, room_id |-> 1, appliance_type |-> "FAN",
        max_power_watts |-> 75, adjustable |-> TRUE, number_of_appliances |-> 4],
       [appliance_id |-> 3, room_id |-> 1, appliance_type |-> "LIGHT",
        max_power_watts |-> 40, adjustable |-> FALSE, number_of_appliances |-> 6] >>

\* The calls of the test suite: its people counts and outdoor temperatures.
TestCalls ==
    [room : [room_id : {1}, max_capacity : {5, 20}],
     occupancy : Occupancies({1}, {0, 1, 5, 10, 18}),
     appliances : {TestAppliances},
     outside_temp_c : {None, Some(15 * TempScale), Some(25 * TempScale),
                       Some(35 * TempScale)}]

Calls == UnitCalls \cup ListCalls \cup TestCalls

NoResult == [error |-> NoError, states |-> <<>>]

\* No request is being served.
NoRequest ==
    [entry |-> "none", room |-> [room_id |-> 0, max_capacity |-> 0],
     occupancy |-> [people_count |-> 0, confidence |-> 0],
     appliances |-> <<>>, latitude |-> None, longitude |-> None]

NoResponse == [status |-> -1]

EmptyDatabase ==
    [occupancy_logs |-> <<>>, optimizations |-> <<>>, room_systems |-> <<>>]

\* LAST_DB_INSERT: Dict[str, datetime] = {}
NoInserts == [r \in {} |-> 0]

Init ==
    /\ \E c \in Calls :
        /\ room = c.room
        /\ occupancy = c.occupancy
        /\ appliances = c.appliances
        /\ outside_temp_c = c.outside_temp_c
    /\ pc = "call"
    /\ result = NoResult
    /\ now = 0
    /\ request = NoRequest
    /\ supabase = FALSE
    /\ providers = <<>>
    /\ invoked = <<>>
    /\ response = NoResponse
    /\ calls = <<>>
    /\ heap = <<>>
    /\ db = EmptyDatabase
    /\ LAST_DB_INSERT = NoInserts
    /\ served = <<>>

\* optimize_room(room, occupancy, appliances, outside_temp_c): seating_area
\* takes its default, MTA_1.
OptimizeRoom ==
    /\ pc = "call"
    /\ result' = optimize_room(room, occupancy, appliances, outside_temp_c, MTA_1, now)
    /\ now' = now + 1
    /\ pc' = "done"
    /\ UNCHANGED <<engine_args, app_vars, thread_vars, service_vars>>

Next == OptimizeRoom

Spec == Init /\ [][Next]_vars

(***************************************************************************)
(* The callers of the engine: the HTTP service (app.py, POST /optimize)    *)
(* and the command-line entry point of energy_optimizer.py.  One           *)
(* behaviour is one request.  The handler is sequential; its steps are cut *)
(* at the calls it makes to the outside (the database, each weather        *)
(* provider, the engine), whose outcomes the environment chooses.          *)
(* Requests are well formed: every key the parsers index is present.       *)
(***************************************************************************)
Sum(states) ==
    LET RECURSIVE SumFrom(_)
        SumFrom(i) == IF i > Len(states) THEN 0
                      ELSE states[i].estimated_power_watts + SumFrom(i + 1)
    IN  SumFrom(1)

parse_room(data) ==
    [room_id |-> MTA_1.room_id, max_capacity |-> data.max_capacity]

parse_occupancy(data, now_iso) ==
    [room_id |-> MTA_1.room_id,
     people_count |-> data.people_count,
     detected_at |-> now_iso,
     confidence |-> data.confidence]

\* max_power_watts: int(data.get("max_power_watts") or 60)
parse_appliance(data) ==
    [appliance_id |-> data.appliance_id,
     room_id |-> MTA_1.room_id,
     appliance_type |-> data.appliance_type,
     max_power_watts |-> IF data.max_power_watts = 0 THEN 60
                         ELSE data.max_power_watts,
     adjustable |-> data.adjustable,
     number_of_appliances |-> data.number_of_appliances]

\* The appliance dictionaries of the requests.
RequestAppliances ==
    LET ac == [appliance_id |-> 1, room_id |-> 2, appliance_type |-> "AC",
               max_power_watts |-> 2000, adjustable |-> TRUE,
               number_of_appliances |-> 2]
        fan == [appliance_id |-> 2, room_id |-> 2, appliance_type |-> "FAN",
                max_power_watts |-> 0, adjustable |-> TRUE,
                number_of_appliances |-> 1]
        light == [appliance_id |-> 3, room_id |-> 2, appliance_type |-> "LIGHT",
                  max_power_watts |-> 40, adjustable |-> FALSE,
                  number_of_appliances |-> 1]
    IN  {<<>>, <<ac>>, <<ac, fan>>, <<light>>}

\* -1 is the "unknown, fetch elsewhere" count of a scheduled job.
RequestPeopleCounts == {-1, 0, 3}

Requests ==
    [entry : {"optimize_full", "main"},
     room : [room_id : RoomIds, max_capacity : {0, 20}],
     occupancy : [people_count : RequestPeopleCounts, confidence : {100}],
     appliances : RequestAppliances,
     latitude : {None, Some(13)},
     longitude : {None, Some(80)}]

\* What the query of occupancy_logs can do: raise, or return its rows
\* (at most one, limit(1)).
OccupancyLookups ==
    {[raised |-> TRUE, data |-> <<>>], [raised |-> FALSE, data |-> <<>>]}
    \cup {[raised |-> FALSE,
           data |-> <<[people_count |-> n, confidence |-> 90, detected_at |-> -1]>>] :
          n \in {0, 2}}

\* What the query of room_systems can do.
RoomSystemsLookups ==
    {[raised |-> TRUE, data |-> <<>>],
     [raised |-> FALSE, data |-> <<>>],
     [raised |-> FALSE, data |-> <<[system_type |-> "AC", active_count |-> 0]>>],
     [raised |-> FALSE, data |-> <<[system_type |-> "AC", active_count |-> 1],
                                   [system_type |-> "FAF", active_count |-> 2]>>]}

\* What the insert into optimizations can do.
InsertOutcomes ==
    {[raised |-> TRUE, data |-> <<>>], [raised |-> FALSE, data |-> <<>>],
     [raised |-> FALSE, data |-> <<[id |-> 41]>>]}

\* {row['system_type']: row['active_count'] for row in sys_res.data}
system_map(data) ==
    [t \in {data[k].system_type : k \in 1..Len(data)} |->
        LET last == CHOOSE k \in 1..Len(data) :
                        /\ data[k].system_type = t
                        /\ \A j \in (k + 1)..Len(data) : data[j].system_type # t
        IN  data[last].active_count]

\* next((k for k, v in mapping.items() if v == app.appliance_type), None)
db_type(appliance_type) ==
    CASE appliance_type = "LIGHT" -> Some("LIGHTING")
      [] appliance_type = "FAN" -> Some("FAF")
      [] appliance_type = "AC" -> Some("AC")
      [] appliance_type = "UPS" -> Some("UPS")
      [] OTHER -> None

override_active_counts(apps, data) ==
    [i \in 1..Len(apps) |->
        LET type == db_type(apps[i].appliance_type)
        IN  IF type # None /\ type[1] \in DOMAIN system_map(data)
              THEN [apps[i] EXCEPT !.number_of_appliances = system_map(data)[type[1]]]
              ELSE apps[i]]

\* [GoogleWeatherProvider(...), OpenMeteoWeatherProvider(...)]
WeatherProviders == <<"GoogleWeatherProvider", "OpenMeteoWeatherProvider">>

\* The temperatures a provider reports, in 1/TempScale degrees.
ReportedTemperatures == {20 * TempScale, 33 * TempScale}

\* What the lookup of a provider can meet.  "no_api_key": the key is not
\* configured (Google only).  "status": a reply whose status is not 200.
\* "URLError": urlopen fails or times out.  "invalid_json": the body does not
\* parse.  "read_error": the connection breaks while the body is read.
\* The other kinds are bodies that parse: a JSON array, an object without a
\* temperature, an object whose temperature is a text, an object with a
\* numeric temperature.
ProviderReplies(provider) ==
    [kind : {"status", "URLError", "invalid_json", "read_error", "json_array",
             "no_temperature", "text_temperature"}
            \cup (IF provider = "GoogleWeatherProvider" THEN {"no_api_key"} ELSE {}),
     temperature : {0}]
    \cup [kind : {"temperature"}, temperature : ReportedTemperatures]

Yields(conditions) == [raised |-> "none", conditions |-> conditions]

Raises(exception) == [raised |-> exception, conditions |-> None]

\* As get_current_conditions, with every failure of the lookup caught.
get_current_conditions_catch_all(provider, reply) ==
    IF reply.kind = "temperature" THEN Yields(Some(reply.temperature))
    ELSE Yields(None)

\* The try block covers urlopen and json.loads only, and catches URLError,
\* HTTPError, TimeoutError and ValueError; what follows it is unguarded.
get_current_conditions(provider, reply) ==
    CASE reply.kind \in {"no_api_key", "status", "URLError", "invalid_json"} ->
            Yields(None)
      [] reply.kind = "read_error" -> Raises("IncompleteRead")
      [] reply.kind = "json_array" -> Raises("AttributeError")
      [] reply.kind = "no_temperature" -> Yields(None)
      [] reply.kind = "text_temperature" -> Raises("ValueError")
      [] reply.kind = "temperature" -> Yields(Some(reply.temperature))

\* As next_provider, starting over from the head of the list.
next_provider_from_head(provider_list, invocations) == 1

\* The provider the loop of _get_first_available_conditions reaches next.
next_provider(provider_list, invocations) == Len(invocations) + 1

\* optimize_full: ValueError is answered 400, any other exception 500; the
\* command line ends with exit code 1 on any exception.
error_response(entry, exception) ==
    IF entry = "main" THEN [status |-> 1, detail |-> exception]
    ELSE IF exception = "ValueError" THEN [status |-> 400, detail |-> exception]
    ELSE [status |-> 500, detail |-> "Internal server error"]

Unparsed == <<>>

InitApp ==
    /\ request \in Requests
    /\ supabase \in (IF request.entry = "main" THEN {FALSE} ELSE BOOLEAN)
    /\ room = Unparsed
    /\ occupancy = Unparsed
    /\ appliances = Unparsed
    /\ outside_temp_c = None
    /\ providers = <<>>
    /\ invoked = <<>>
    /\ result = NoResult
    /\ response = NoResponse
    /\ calls = <<>>
    /\ heap = <<>>
    /\ db = EmptyDatabase
    /\ LAST_DB_INSERT = NoInserts
    /\ served = <<>>
    /\ now = 0
    /\ pc = "request"

\* room = _parse_room(...); occupancy = _parse_occupancy(...); appliances = [...]
ParseInputs ==
    /\ pc = "request"
    /\ room' = parse_room(request.room)
    /\ occupancy' = parse_occupancy(request.occupancy, now)
    /\ appliances' = [i \in 1..Len(request.appliances) |->
                         parse_appliance(request.appliances[i])]
    /\ pc' = IF request.entry = "main" THEN "fetch" ELSE "resolve"
    /\ UNCHANGED <<request, supabase, outside_temp_c, providers, invoked,
                   result, response, now, thread_vars, service_vars>>

\* if occupancy.people_count == -1 and supabase: take the latest row of
\* occupancy_logs; a failing lookup is logged and nothing else.
ResolveOccupancy ==
    /\ pc = "resolve"
    /\ IF occupancy.people_count = -1 /\ supabase
         THEN \E res \in OccupancyLookups :
                 occupancy' =
                     IF ~res.raised /\ res.data # <<>>
                       THEN [occupancy EXCEPT
                                !.people_count = res.data[1].people_count,
                                !.confidence = res.data[1].confidence,
                                !.detected_at = res.data[1].detected_at]
                       ELSE occupancy
         ELSE occupancy' = occupancy
    /\ pc' = "override"
    /\ UNCHANGED <<request, supabase, room, appliances, outside_temp_c,
                   providers, invoked, result, response, now, thread_vars, service_vars>>

\* if supabase: number_of_appliances is replaced by room_systems' active_count.
OverrideActiveCounts ==
    /\ pc = "override"
    /\ IF supabase
         THEN \E sys_res \in RoomSystemsLookups :
                 appliances' =
                     IF ~sys_res.raised /\ sys_res.data # <<>>
                       THEN override_active_counts(appliances, sys_res.data)
                       ELSE appliances
         ELSE appliances' = appliances
    /\ pc' = "fetch"
    /\ UNCHANGED <<request, supabase, room, occupancy, outside_temp_c,
                   providers, invoked, result, response, now, thread_vars, service_vars>>

\* _fetch_weather up to the call of _get_first_available_conditions: without
\* both coordinates there is no provider and no temperature.
FetchWeather ==
    /\ pc = "fetch"
    /\ IF request.latitude = None \/ request.longitude = None
         THEN /\ providers' = <<>>
              /\ pc' = "engine"
         ELSE /\ providers' = WeatherProviders
              /\ pc' = "select"
    /\ UNCHANGED <<request, supabase, room, occupancy, appliances,
                   outside_temp_c, invoked, result, response, now, thread_vars, service_vars>>

\* One turn of the loop of _get_first_available_conditions: getter() is
\* called on the next provider; conditions are returned at once, an exception
\* leaves the function, the handler and the request, and after the last
\* provider the function returns None.
InvokeProvider ==
    /\ pc = "select"
    /\ LET i == next_provider(providers, invoked)
       IN  \E reply \in ProviderReplies(providers[i]) :
             LET got == get_current_conditions(providers[i], reply)
             IN  /\ invoked' = Append(invoked,
                                      [provider |-> i, raised |-> got.raised,
                                       conditions |-> got.conditions])
                 /\ IF got.raised # "none"
                      THEN /\ response' = error_response(request.entry, got.raised)
                           /\ pc' = "responded"
                           /\ UNCHANGED outside_temp_c
                      ELSE IF got.conditions # None
                      THEN /\ outside_temp_c' = got.conditions
                           /\ pc' = "engine"
                           /\ UNCHANGED response
                      ELSE /\ pc' = IF i = Len(providers) THEN "engine" ELSE "select"
                           /\ UNCHANGED <<outside_temp_c, response>>
    /\ UNCHANGED <<request, supabase, room, occupancy, appliances, providers,
                   result, now, thread_vars, service_vars>>

\* recommendations = optimize_room(room, occupancy, appliances, outside_temp_c)
RunOptimizer ==
    /\ pc = "engine"
    /\ result' = optimize_room(room, occupancy, appliances, outside_temp_c, MTA_1, now)
    /\ now' = now + 1
    /\ IF result'.error.raised # "none"
         THEN /\ response' = error_response(request.entry, result'.error.raised)
              /\ pc' = "responded"
         ELSE /\ pc' = "respond"
              /\ UNCHANGED response
    /\ UNCHANGED <<request, supabase, room, occupancy, appliances,
                   outside_temp_c, providers, invoked, thread_vars, service_vars>>

\* The total, the insert into optimizations (its failure is logged and
\* nothing else) and the OptimizeResponse; the command line prints the report.
Respond ==
    /\ pc = "respond"
    /\ \E db_res \in (IF supabase THEN InsertOutcomes
                      ELSE {[raised |-> TRUE, data |-> <<>>]}) :
          response' =
              [status |-> IF request.entry = "main" THEN 0 ELSE 200,
               room_id |-> room.room_id,
               people_count |-> occupancy.people_count,
               outside_temp_c |-> outside_temp_c,
               total_estimated_power_watts |-> Sum(result.states),
               recommendations |-> result.states,
               optimization_id |-> IF ~db_res.raised /\ db_res.data # <<>>
                                     THEN Some(db_res.data[1].id) ELSE None]
    /\ pc' = "responded"
    /\ UNCHANGED <<request, supabase, room, occupancy, appliances,
                   outside_temp_c, providers, invoked, result, now, thread_vars, service_vars>>

NextApp ==
    \/ ParseInputs
    \/ ResolveOccupancy
    \/ OverrideActiveCounts
    \/ FetchWeather
    \/ InvokeProvider
    \/ RunOptimizer
    \/ Respond

SpecApp == InitApp /\ [][NextApp]_vars

(***************************************************************************)
(* Concurrent calls of optimize_room.  Each thread runs one call, cut at   *)
(* the turns of its loop.  A frame holds the arguments and the locals of a *)
(* call; heap holds the lists the calls allocate and append to.            *)
(***************************************************************************)
Threads == {1, 2}

\* The calls the threads make: four of the test suite's, and one that
\* _validate_inputs rejects.
ConcurrentCalls ==
    {c \in TestCalls : /\ c.occupancy.people_count \in {0, 18}
                       /\ c.outside_temp_c \in {None, Some(35 * TempScale)}}
    \cup {[room |-> [room_id |-> 2, max_capacity |-> 20],
           occupancy |-> [room_id |-> 1, people_count |-> 1,
                          detected_at |-> 0, confidence |-> 100],
           appliances |-> TestAppliances,
           outside_temp_c |-> None]}

\* As buffer_of, with one list for all the calls.
buffer_of_shared(t) == 1

\* recommendations = []: the list of a call is its own, allocated in the call.
buffer_of(t) == t

InitConcurrent ==
    /\ calls \in [Threads -> [room : {c.room : c \in ConcurrentCalls},
                              occupancy : {c.occupancy : c \in ConcurrentCalls},
                              appliances : {TestAppliances},
                              outside_temp_c : {c.outside_temp_c : c \in ConcurrentCalls},
                              pc : {"call"}, i : {0}, now_iso : {0},
                              result : {NoResult}]]
    /\ \A t \in Threads :
          [room |-> calls[t].room, occupancy |-> calls[t].occupancy,
           appliances |-> calls[t].appliances,
           outside_temp_c |-> calls[t].outside_temp_c] \in ConcurrentCalls
    /\ heap = [b \in Threads |-> <<>>]
    /\ room = [room_id |-> 0, max_capacity |-> 0]
    /\ occupancy = [room_id |-> 0, people_count |-> 0, detected_at |-> 0,
                    confidence |-> 0]
    /\ appliances = <<>>
    /\ outside_temp_c = None
    /\ pc = "threads"
    /\ result = NoResult
    /\ now = 0
    /\ request = NoRequest
    /\ supabase = FALSE
    /\ providers = <<>>
    /\ invoked = <<>>
    /\ response = NoResponse
    /\ db = EmptyDatabase
    /\ LAST_DB_INSERT = NoInserts
    /\ served = <<>>

\* A call up to its loop: _validate_inputs, the max_capacity check, the read
\* of the clock and the allocation of the list.
Enter(t) ==
    /\ calls[t].pc = "call"
    /\ LET f == calls[t]
           err == validate_inputs(f.room, f.occupancy, f.appliances, MTA_1)
       IN  IF err.raised # "none"
             THEN /\ calls' = [calls EXCEPT ![t].pc = "raised",
                                            ![t].result = [error |-> err, states |-> <<>>]]
                  /\ UNCHANGED <<heap, now>>
           ELSE IF f.room.max_capacity <= 0
             THEN /\ calls' = [calls EXCEPT ![t].pc = "raised",
                                  ![t].result = [error |-> ValueError("room.max_capacity"),
                                                 states |-> <<>>]]
                  /\ UNCHANGED <<heap, now>>
           ELSE /\ calls' = [calls EXCEPT ![t].pc = "loop", ![t].i = 1,
                                          ![t].now_iso = now]
                /\ now' = now + 1
                /\ heap' = [heap EXCEPT ![buffer_of(t)] = <<>>]
    /\ UNCHANGED <<engine_args, pc, result, app_vars, service_vars>>

\* One turn of the loop, of the base-load branch or of the normal one: the
\* state of the next appliance is appended to the list of the call.
AppendState(t) ==
    /\ calls[t].pc = "loop"
    /\ calls[t].i <= Len(calls[t].appliances)
    /\ LET f == calls[t]
           people == f.occupancy.people_count
           appliance == f.appliances[f.i]
           state == IF people = 0
                      THEN empty_room_state(appliance, f.outside_temp_c, f.now_iso)
                      ELSE occupied_state(appliance, people,
                                          load_factor_of(people, f.room.max_capacity),
                                          f.outside_temp_c, f.now_iso)
       IN  /\ heap' = [heap EXCEPT ![buffer_of(t)] = Append(@, state)]
           /\ calls' = [calls EXCEPT ![t].i = f.i + 1]
    /\ UNCHANGED <<engine_args, pc, result, now, app_vars, service_vars>>

\* return recommendations
Return(t) ==
    /\ calls[t].pc = "loop"
    /\ calls[t].i > Len(calls[t].appliances)
    /\ calls' = [calls EXCEPT ![t].pc = "returned",
                              ![t].result = [error |-> NoError,
                                             states |-> heap[buffer_of(t)]]]
    /\ UNCHANGED <<engine_args, pc, result, now, heap, app_vars, service_vars>>

NextConcurrent ==
    \E t \in Threads :
        \/ Enter(t)
        \/ AppendState(t)
        \/ Return(t)

SpecConcurrent == InitConcurrent /\ [][NextConcurrent]_vars

(***************************************************************************)
(* The endpoints of app.py that write to the database: POST /detect, which *)
(* logs the people it counts at most once a minute for a room, and POST    *)
(* /optimize/accept, which applies a stored optimization to the active     *)
(* unit counts.  A handler runs on the event loop without yielding once    *)
(* the image is read, so each request is one action.  Under SpecDetect and *)
(* SpecAccept now is the wall clock in seconds and served lists the        *)
(* requests served so far.                                                 *)
(***************************************************************************)
MaxClock == 120

MaxRequests == 3

\* The seconds that pass between two requests.
TickSteps == {29, 30}

DetectRooms == {"1", "2"}

\* The image of a request: unreadable, or the boxes the detector finds in
\* it, each with its class and its confidence in hundredths.
Images ==
    {[readable |-> FALSE, boxes |-> <<>>],
     [readable |-> TRUE, boxes |-> <<>>],
     [readable |-> TRUE, boxes |-> <<[cls |-> 0, conf |-> 90],
                                      [cls |-> 0, conf |-> 40],
                                      [cls |-> 16, conf |-> 95]>>]}

\* if cls_id == 0 and conf > 0.4: people_count += 1
count_people(boxes) ==
    Cardinality({k \in 1..Len(boxes) : boxes[k].cls = 0 /\ boxes[k].conf > 40})

\* LAST_DB_INSERT.get(room_id)
last_insert_of(inserts, room_id) ==
    IF room_id \in DOMAIN inserts THEN Some(inserts[room_id]) ELSE None

\* As window_open, with the minute never waited for.
window_open_always(last_insert, at) == TRUE

\* if last_insert is None or delta >= 60
window_open(last_insert, at) ==
    \/ last_insert = None
    \/ at - last_insert[1] >= 60

InitDetect ==
    /\ supabase \in BOOLEAN
    /\ db = EmptyDatabase
    /\ LAST_DB_INSERT = NoInserts
    /\ served = <<>>
    /\ now = 0
    /\ pc = "serving"
    /\ response = NoResponse
    /\ room = Unparsed
    /\ occupancy = Unparsed
    /\ appliances = Unparsed
    /\ outside_temp_c = None
    /\ result = NoResult
    /\ request = NoRequest
    /\ providers = <<>>
    /\ invoked = <<>>
    /\ calls = <<>>
    /\ heap = <<>>

\* The whole handler of POST /detect/{room_id}.  An image that cannot be
\* opened is answered 500 before the database is touched.  The insert runs
\* when the client is configured and the window is open; LAST_DB_INSERT is
\* written after the insert has succeeded, a failing insert is logged.
detect(room_id) ==
    /\ pc = "serving"
    /\ Len(served) < MaxRequests
    /\ \E image \in Images, insert_fails \in BOOLEAN :
          LET people == count_people(image.boxes)
              last_insert == last_insert_of(LAST_DB_INSERT, room_id)
              attempted == /\ image.readable
                           /\ supabase
                           /\ window_open(last_insert, now)
              inserted == attempted /\ ~insert_fails
              outcome == IF ~image.readable THEN "error"
                         ELSE IF ~supabase THEN "disabled"
                         ELSE IF ~attempted THEN "skipped"
                         ELSE IF insert_fails THEN "failed"
                         ELSE "inserted"
          IN  /\ (~attempted) => ~insert_fails
              /\ db' = IF inserted
                         THEN [db EXCEPT !.occupancy_logs =
                                  Append(@, [room_id |-> room_id,
                                             people_count |-> people,
                                             confidence |-> 95,
                                             detected_at |-> now])]
                         ELSE db
              /\ LAST_DB_INSERT' =
                    IF inserted
                      THEN [r \in DOMAIN LAST_DB_INSERT \cup {room_id} |->
                               IF r = room_id THEN now ELSE LAST_DB_INSERT[r]]
                      ELSE LAST_DB_INSERT
              /\ response' = IF image.readable
                               THEN [status |-> 200, people_count |-> people,
                                     room_id |-> room_id]
                               ELSE [status |-> 500, detail |-> "OSError"]
              /\ served' = Append(served, [room_id |-> room_id, at |-> now,
                                           outcome |-> outcome])
    /\ UNCHANGED <<engine_args, pc, result, now, request, supabase, providers,
                   invoked, thread_vars>>

\* POST /detect: return await detect("1", image)
detect_fallback == detect("1")

\* Time passes between requests.
Tick ==
    /\ pc = "serving"
    /\ \E step \in TickSteps :
          /\ now + step <= MaxClock
          /\ now' = now + step
    /\ UNCHANGED <<engine_args, pc, result, app_vars, thread_vars, service_vars>>

NextDetect ==
    \/ \E room_id \in DetectRooms : detect(room_id)
    \/ detect_fallback
    \/ Tick

SpecDetect == InitDetect /\ [][NextDetect]_vars

\* The names bound at module level in app.py when a handler runs.
ModuleNames ==
    {"json", "logging", "os", "asdict", "datetime", "timezone", "Path", "LOG",
     "LAST_DB_INSERT", "CONFIG_PATH", "CONFIG", "app", "YOLO", "Image", "io",
     "model", "SUPABASE_URL", "SUPABASE_KEY", "supabase"}

\* The recommendations a stored optimization holds.
StoredRecommendations ==
    LET rec(id, type, status) ==
            [appliance_id |-> id, appliance_type |-> type, status |-> status]
    IN  {<<>>,
         <<rec(1, "AC", "OFF")>>,
         <<rec(1, "AC", "OFF"), rec(2, "FAN", "ON"), rec(3, "LIGHT", "OFF")>>,
         <<rec(1, "AC", "OFF"), rec(2, "AC", "OFF"), rec(4, "Heater", "OFF")>>}

\* The active counts of the room: a row for AC and for LIGHTING, none for FAF.
StoredRoomSystems ==
    [{"AC", "LIGHTING"} -> {0, 1, 3}]

StoredOptimizationIds == {"41"}

AppliedApplianceIds == {None, Some(1), Some(2)}

\* system_decrements: for every database type, the count of recommendations
\* that pass the appliance_id filter, are OFF and map to that type.
system_decrements(recs, appliance_id) ==
    LET applies(rec) ==
            /\ appliance_id = None \/ rec.appliance_id = appliance_id[1]
            /\ rec.status = "OFF"
            /\ db_type(rec.appliance_type) # None
        types == {db_type(recs[k].appliance_type)[1] :
                     k \in {j \in 1..Len(recs) : applies(recs[j])}}
    IN  [t \in types |->
            Cardinality({k \in 1..Len(recs) :
                            /\ applies(recs[k])
                            /\ db_type(recs[k].appliance_type)[1] = t})]

\* new_count = max(0, current_count - count), for the types that have a row.
apply_decrements(room_systems, decrements) ==
    [t \in DOMAIN room_systems |->
        IF t \in DOMAIN decrements
          THEN Max(0, room_systems[t] - decrements[t])
          ELSE room_systems[t]]

InitAccept ==
    /\ supabase \in BOOLEAN
    /\ \E data \in StoredRecommendations, systems \in StoredRoomSystems :
          db = [occupancy_logs |-> <<>>,
                optimizations |-> [id \in StoredOptimizationIds |->
                                      [room_id |-> "1", optimization_data |-> data,
                                       is_accepted |-> FALSE]],
                room_systems |-> systems]
    /\ LAST_DB_INSERT = NoInserts
    /\ served = <<>>
    /\ now = 0
    /\ pc = "serving"
    /\ response = NoResponse
    /\ room = Unparsed
    /\ occupancy = Unparsed
    /\ appliances = Unparsed
    /\ outside_temp_c = None
    /\ result = NoResult
    /\ request = NoRequest
    /\ providers = <<>>
    /\ invoked = <<>>
    /\ calls = <<>>
    /\ heap = <<>>

\* The whole handler of POST /optimize/accept/{optimization_id}; the
\* database answers every query.  Without a client the answer is 503.  The
\* rest runs inside try ... except Exception, which answers 500 for whatever
\* is raised in it: the HTTPException(404) of an unknown id, and the NameError
\* of a name that is not bound when the room's UUID is looked up.
accept_optimization(optimization_id, appliance_id) ==
    /\ pc = "serving"
    /\ Len(served) < MaxRequests
    /\ LET found == optimization_id \in DOMAIN db.optimizations
           decrements ==
               system_decrements(db.optimizations[optimization_id].optimization_data,
                                 appliance_id)
           status == IF ~supabase THEN 503
                     ELSE IF ~found THEN 500
                     ELSE IF "ROOM_UUID_MAP" \notin ModuleNames THEN 500
                     ELSE 200
       IN  /\ db' = IF status = 200
                      THEN [db EXCEPT
                               !.room_systems = apply_decrements(@, decrements),
                               !.optimizations[optimization_id].is_accepted = TRUE]
                      ELSE db
           /\ response' =
                 IF status = 200
                   THEN [status |-> 200, id |-> optimization_id,
                         updated_systems |-> decrements]
                 ELSE IF status = 503
                   THEN [status |-> 503, detail |-> "Database not configured"]
                 ELSE IF ~found
                   THEN [status |-> 500, detail |-> "Optimization not found"]
                 ELSE [status |-> 500, detail |-> "NameError"]
           /\ served' = Append(served, [optimization_id |-> optimization_id,
                                        appliance_id |-> appliance_id,
                                        status |-> status,
                                        before |-> db])
    /\ UNCHANGED <<engine_args, pc, result, now, request, supabase, providers,
                   invoked, thread_vars, LAST_DB_INSERT>>

NextAccept ==
    \E optimization_id \in StoredOptimizationIds \cup {"99"},
       appliance_id \in AppliedApplianceIds :
        accept_optimization(optimization_id, appliance_id)

SpecAccept == InitAccept /\ [][NextAccept]_vars

(***************************************************************************)
(* The claims.                                                             *)
(***************************************************************************)
Done == pc = "done"

Returned == Done /\ result.error.raised = "none"

Raised == Done /\ result.error.raised = "ValueError"

people_count == occupancy.people_count

\* The AC type tag in either spelling of the model's calls.
IsAC(appliance) == appliance.appliance_type \in {"AC", "ac"}

IsFanOrLight(appliance) == appliance.appliance_type \in {"FAN", "Fan", "LIGHT"}

Indices == 1..Len(appliances)

\* C1: a call that returns gives exactly one ApplianceState per input
\* appliance, in input order: output[i].appliance_id = appliances[i].appliance_id,
\* in the empty-room branch and in the occupied branch, OFF states included.
C1_OnePerApplianceInOrder ==
    Returned =>
        /\ Len(result.states) = Len(appliances)
        /\ \A i \in Indices :
              result.states[i].appliance_id = appliances[i].appliance_id

\* An occupied call over two appliances of different ids, the first one
\* reported OFF and the second one ON.
C1_Witness ==
    /\ Returned
    /\ people_count = 1
    /\ Len(appliances) = 2
    /\ appliances[1].appliance_id # appliances[2].appliance_id
    /\ result.states[1].status = "OFF"
    /\ result.states[2].status = "ON"

\* The ACs the base-load level must not depend on: every rating, unit count
\* and adjustable flag of the model.
AcVariants ==
    [appliance_id : {7}, room_id : {1}, appliance_type : {"AC"},
     max_power_watts : PowerRatings, adjustable : BOOLEAN,
     number_of_appliances : 0..MaxUnits]

\* The state an empty room of capacity cap gives the AC a at outside_temp_c.
BaseLoadOf(a, cap) ==
    optimize_room([room_id |-> 1, max_capacity |-> cap],
                  [room_id |-> 1, people_count |-> 0, detected_at |-> 0,
                   confidence |-> 100],
                  <<a>>, outside_temp_c, MTA_1, 0).states[1]

C5_ActivationThresholds ==
    Returned =>
        \A i \in Indices :
            /\ (people_count >= 1 /\ IsFanOrLight(appliances[i])) =>
                  result.states[i].status = "ON"
            /\ (people_count >= 2 /\ IsAC(appliances[i])) =>
                  result.states[i].status = "ON"

\* Two occupants on a cold day and a non-adjustable AC with no unit declared:
\* the AC is ON.
C5_Witness ==
    /\ Returned
    /\ people_count = 2
    /\ outside_temp_c # None
    /\ outside_temp_c[1] <= 18 * TempScale
    /\ Len(appliances) = 1
    /\ IsAC(appliances[1])
    /\ ~appliances[1].adjustable
    /\ appliances[1].number_of_appliances = 0
    /\ result.states[1].status = "ON"

\* Every record of the call names the room MTA_1 checks for.
RoomsMatch ==
    /\ occupancy.room_id = room.room_id
    /\ \A i \in Indices : appliances[i].room_id = room.room_id

\* C6: a call with people_count < 0, matching room ids and max_capacity > 0
\* raises an error and returns no list.
C6_NegativePeopleRaises ==
    (Done /\ people_count < 0 /\ RoomsMatch /\ room.room_id = MTA_1.room_id
          /\ room.max_capacity > 0) =>
        /\ result.error.raised = "ValueError"
        /\ result.states = <<>>

\* C7: when occupancy.room_id or some appliance.room_id differs from
\* room.room_id the call raises and produces no ApplianceState, not even for
\* the appliances that match.
C7_RoomMismatchRaises ==
    (Done /\ ~RoomsMatch) =>
        /\ result.error.raised = "ValueError"
        /\ result.states = <<>>

\* The room and the occupancy are MTA_1's, the first appliance too, the second
\* appliance is another room's: the call raises.
C7_Witness ==
    /\ Raised
    /\ room.room_id = 1
    /\ occupancy.room_id = 1
    /\ room.max_capacity > 0
    /\ Len(appliances) = 2
    /\ appliances[1].room_id = 1
    /\ appliances[2].room_id = 2
    /\ result.error.about = "appliance.room_id"
    /\ result.states = <<>>

\* C8 as claimed: for every room id r, a call whose room, occupancy and
\* appliances all carry r, with max_capacity > 0 and people_count >= 0, raises
\* no error and returns a result.
C8_AnyMatchingRoomAccepted ==
    (Done /\ RoomsMatch /\ room.max_capacity > 0 /\ people_count >= 0) =>
        /\ result.error.raised = "none"
        /\ Len(result.states) = Len(appliances)

\* C8 as amended: the same for r = 1, the room id of the seating area MTA_1
\* that optimize_room validates against by default.
C8_SeatingAreaRoomAccepted ==
    (Done /\ RoomsMatch /\ room.room_id = MTA_1.room_id
          /\ room.max_capacity > 0 /\ people_count >= 0) =>
        /\ result.error.raised = "none"
        /\ Len(result.states) = Len(appliances)

\* A call for room 1 over two appliances of room 1 returns two states.
C8_Witness ==
    /\ Returned
    /\ RoomsMatch
    /\ room.room_id = 1
    /\ Len(appliances) = 2
    /\ Len(result.states) = 2

\* The inputs the data model calls valid.
ValidInputs ==
    /\ people_count >= 0
    /\ \A i \in Indices :
          /\ appliances[i].max_power_watts > 0
          /\ appliances[i].number_of_appliances >= 1

\* C9: for valid inputs every emitted level is in 1..10, every emitted
\* setpoint in 22..25 and every estimated power >= 0.
C9_RangeInvariants ==
    (Returned /\ ValidInputs) =>
        \A i \in Indices :
            LET st == result.states[i]
            IN  /\ st.level # None => st.level[1] \in 1..10
                /\ st.setpoint_c # None => st.setpoint_c[1] \in 22..25
                /\ st.estimated_power_watts >= 0

\* A full AC on a day of 32 C or more: the occupancy level 10 and the bias +2
\* are clamped to 10.
C9_Witness ==
    /\ Returned
    /\ ValidInputs
    /\ people_count = 6
    /\ outside_temp_c # None
    /\ outside_temp_c[1] >= 32 * TempScale
    /\ Len(appliances) = 1
    /\ IsAC(appliances[1])
    /\ appliances[1].adjustable
    /\ appliances[1].number_of_appliances = 1
    /\ result.states[1].level = Some(10)

\* C10: for valid inputs the estimated power is 0 exactly when the status is
\* OFF: an OFF state has power 0 and an ON state has power > 0.
C10_PowerZeroIffOff ==
    (Returned /\ ValidInputs) =>
        \A i \in Indices :
            result.states[i].estimated_power_watts = 0
                <=> result.states[i].status = "OFF"

\* C11: a level is present only on the state of an adjustable appliance that
\* is ON; no non-adjustable appliance is given a level, in the empty-room
\* branch or the occupied one.
C11_LevelOnlyIfAdjustableOn ==
    Returned =>
        \A i \in Indices :
            result.states[i].level # None =>
                /\ appliances[i].adjustable
                /\ result.states[i].status = "ON"

\* The state the call would give its i-th appliance with p occupants.
StateWithPeople(i, p) ==
    optimize_room(room, [occupancy EXCEPT !.people_count = p], <<appliances[i]>>,
                  outside_temp_c, MTA_1, 0).states[1]

\* C12: for an adjustable appliance with at least one unit and a fixed
\* outdoor temperature, if p1 < p2 and the appliance is ON at both, the level
\* at p2 is at least the level at p1.
C12_OccupancyMonotone ==
    (Returned /\ ValidInputs) =>
        \A i \in Indices :
            (appliances[i].adjustable /\ result.states[i].status = "ON") =>
                \A p1 \in 1..(people_count - 1) :
                    StateWithPeople(i, p1).status = "ON" =>
                        StateWithPeople(i, p1).level[1] <= result.states[i].level[1]

\* The state the call would give its i-th appliance at outdoor temperature t.
StateAtTemperature(i, t) ==
    optimize_room(room, occupancy, <<appliances[i]>>, Some(t), MTA_1, 0).states[1]

\* C13: for a fixed people_count and a fixed AC that is ON, if t1 < t2 the
\* level at t2 is at least the level at t1 and the setpoint at t2 is at most
\* the setpoint at t1, in the empty-room branch and in the occupied one.
C13_TemperatureMonotone ==
    (Returned /\ outside_temp_c # None) =>
        \A i \in Indices :
            (IsAC(appliances[i]) /\ result.states[i].status = "ON") =>
                \A t1 \in (MinTempC * TempScale)..(outside_temp_c[1] - 1) :
                    LET cooler == StateAtTemperature(i, t1)
                        st == result.states[i]
                    IN  /\ cooler.status = "ON"
                        /\ cooler.setpoint_c[1] >= st.setpoint_c[1]
                        /\ (st.level # None /\ cooler.level # None) =>
                              cooler.level[1] <= st.level[1]
                        /\ (st.level = None) <=> (cooler.level = None)

\* Three occupants and an adjustable AC at 33 C: the bias +2 and the setpoint
\* 23, where a cooler day of 27.5 C gives bias 0 and setpoint 25.
C13_Witness ==
    /\ Returned
    /\ people_count = 3
    /\ outside_temp_c = Some(33 * TempScale)
    /\ Len(appliances) = 1
    /\ IsAC(appliances[1])
    /\ appliances[1].adjustable
    /\ appliances[1].number_of_appliances = 1
    /\ result.states[1].level = Some(7)
    /\ result.states[1].setpoint_c = Some(23)
    /\ StateAtTemperature(1, 27 * TempScale).level = Some(5)
    /\ StateAtTemperature(1, 27 * TempScale).setpoint_c = Some(25)

\* The call of the concrete scenario: the test suite's room and appliances,
\* 18 occupants, 35 C outside.
Scenario18At35 ==
    /\ Returned
    /\ room = [room_id |-> 1, max_capacity |-> 20]
    /\ appliances = TestAppliances
    /\ people_count = 18
    /\ outside_temp_c = Some(35 * TempScale)

\* The units _decide_appliance_state energizes for the i-th appliance.
UnitsOn(i) ==
    decide_appliance_state(appliances[i], people_count,
                           load_factor_of(people_count, room.max_capacity)).units_on

\* C14 as claimed: the scenario reports the AC ON with setpoint 23 and level
\* 9, with 2 AC units energized.
C14_ScenarioLevelNine ==
    Scenario18At35 =>
        /\ result.states[1].status = "ON"
        /\ result.states[1].setpoint_c = Some(23)
        /\ result.states[1].level = Some(9)
        /\ UnitsOn(1) = 2

\* C14 as amended: the scenario reports the AC ON with setpoint 23 and level
\* 10 (18 occupants on 2 units of 6 is a full load, level 10, and the bias +2
\* is clamped to 10), with 2 AC units energized and 4000 W estimated.
C14_ScenarioLevelTen ==
    Scenario18At35 =>
        /\ result.states[1].status = "ON"
        /\ result.states[1].setpoint_c = Some(23)
        /\ result.states[1].level = Some(10)
        /\ UnitsOn(1) = 2
        /\ result.states[1].estimated_power_watts = 4000

C14_Witness ==
    /\ Scenario18At35
    /\ result.states[1].appliance_id = 1
    /\ result.states[1].status = "ON"

Finished(t) == calls[t].pc \in {"returned", "raised"}

\* What the call of thread t returns when it runs alone.
Alone(t) ==
    optimize_room(calls[t].room, calls[t].occupancy, calls[t].appliances,
                  calls[t].outside_temp_c, MTA_1, calls[t].now_iso)

SameArguments(t, u) ==
    /\ calls[t].room = calls[u].room
    /\ calls[t].occupancy = calls[u].occupancy
    /\ calls[t].appliances = calls[u].appliances
    /\ calls[t].outside_temp_c = calls[u].outside_temp_c

WithoutUpdatedAt(states) ==
    [i \in 1..Len(states) |-> [states[i] EXCEPT !.updated_at = 0]]

\* C15: in every interleaving of concurrent calls, a call that has finished
\* has returned or raised exactly what it returns or raises when run alone on
\* its arguments, and two finished calls with identical arguments have lists
\* identical in every field other than updated_at.
C15_CallsShareNoState ==
    /\ \A t \in DOMAIN calls :
          Finished(t) => calls[t].result = Alone(t)
    /\ \A t, u \in DOMAIN calls :
          (Finished(t) /\ Finished(u) /\ SameArguments(t, u)) =>
              /\ calls[t].result.error = calls[u].result.error
              /\ WithoutUpdatedAt(calls[t].result.states)
                    = WithoutUpdatedAt(calls[u].result.states)

\* Thread 2 entered first and is in the middle of its loop; thread 1, with
\* identical arguments, entered later and has already returned its three
\* states.
C15_Witness ==
    /\ pc = "threads"
    /\ SameArguments(1, 2)
    /\ calls[2].pc = "loop"
    /\ calls[2].i = 2
    /\ calls[2].now_iso = 0
    /\ calls[1].pc = "returned"
    /\ calls[1].now_iso = 1
    /\ Len(calls[1].result.states) = 3
    /\ calls[1].occupancy.people_count = 18

\* A provider's lookup raised and the exception left the handler.
ProviderRaised ==
    /\ invoked # <<>>
    /\ invoked[Len(invoked)].raised # "none"

\* _get_first_available_conditions (or _fetch_weather without it) has returned.
SelectionReturned ==
    \/ pc \in {"engine", "respond"}
    \/ pc = "responded" /\ ~ProviderRaised

\* optimize_room has been called.
EngineRan ==
    \/ pc = "respond"
    \/ pc = "responded" /\ ~ProviderRaised

\* C16: providers are invoked strictly in list order and each at most once;
\* the selection returns the result of the first provider that yields
\* conditions and invokes no provider after it; when every provider yields
\* nothing, or there is no provider, it returns None and the optimizer runs
\* with the temperature absent.
C16_FirstAvailableProvider ==
    /\ Len(invoked) <= Len(providers)
    /\ \A k \in 1..Len(invoked) : invoked[k].provider = k
    /\ \A k \in 1..(Len(invoked) - 1) : invoked[k].conditions = None
    /\ SelectionReturned =>
          /\ outside_temp_c = IF invoked = <<>> THEN None
                              ELSE invoked[Len(invoked)].conditions
          /\ outside_temp_c = None => Len(invoked) = Len(providers)
    /\ (EngineRan /\ \A k \in 1..Len(invoked) : invoked[k].conditions = None) =>
          /\ result = optimize_room(room, occupancy, appliances, None, MTA_1, now - 1)
          /\ response.status \in {0, 200} => response.outside_temp_c = None

\* The first provider yielded nothing, the second one a temperature, and the
\* request was answered with that temperature.
C16_Witness ==
    /\ pc = "responded"
    /\ response.status = 200
    /\ Len(invoked) = 2
    /\ invoked[1].conditions = None
    /\ invoked[2].conditions = Some(33 * TempScale)
    /\ response.outside_temp_c = Some(33 * TempScale)

\* C17: whatever way the lookup of a provider fails to produce a reading,
\* the selection goes on to the next provider, and after the last one the
\* optimization still completes, with the temperature unknown: the request
\* is answered by the engine's outcome, never by the provider's failure.
C17_ProviderFailureNeverFails ==
    \A k \in 1..Len(invoked) :
        invoked[k].conditions = None =>
            \/ k < Len(invoked)
            \/ k < Len(providers) /\ pc = "select"
            \/ /\ k = Len(providers)
               /\ outside_temp_c = None
               /\ \/ pc \in {"engine", "respond"}
                  \/ /\ pc = "responded"
                     /\ \/ response.status \in {0, 200}
                        \/ result.error.raised # "none"

\* C18: on every path through _run_optimizer (database client configured or
\* not, latest occupancy row found or not, lookup failing or not) the count
\* optimize_room is called with is non-negative; it is never the sentinel -1.
C18_SentinelResolved ==
    (request.entry = "optimize_full" /\ EngineRan) =>
        occupancy.people_count >= 0


\* C19: for every outdoor temperature, whole degrees or not, _tbase_formula
\* returns 25 when T <= 28, 24 when 28 < T <= 32, 23 when 32 < T <= 36 and
\* 22 when T > 36; 24 when T is absent. Every AC that is ON carries that
\* value as its setpoint.
C19_SetpointTable ==
    LET table == IF outside_temp_c = None THEN 24
                 ELSE IF outside_temp_c[1] <= 28 * TempScale THEN 25
                 ELSE IF outside_temp_c[1] <= 32 * TempScale THEN 24
                 ELSE IF outside_temp_c[1] <= 36 * TempScale THEN 23
                 ELSE 22
    IN  Returned =>
            /\ tbase_formula(outside_temp_c) = table
            /\ \A i \in Indices :
                  (IsAC(appliances[i]) /\ result.states[i].status = "ON") =>
                      result.states[i].setpoint_c = Some(table)

\* C20: with units = max(1, units_on), an ON adjustable appliance with a level
\* has power floor(max_power_watts * level / 10) * units, the per-unit power
\* floored before the multiplication, and an ON non-adjustable appliance has
\* power max_power_watts * units.
C20_PowerFormula ==
    (Returned /\ ValidInputs) =>
        \A i \in Indices :
            LET st == result.states[i]
                units == IF people_count = 0 THEN 1 ELSE Max(1, UnitsOn(i))
                watts == appliances[i].max_power_watts
            IN  st.status = "ON" =>
                    st.estimated_power_watts =
                        IF appliances[i].adjustable /\ st.level # None
                          THEN ((watts * st.level[1]) \div 10) * units
                          ELSE watts * units

\* C21: every appliance that is running in occupied mode has
\* clamp(ceil(people_count / per_unit_cap), 1, number_of_appliances) units
\* on, with per_unit_cap 6 for AC, 4 for FAN, 2 for LIGHT and 1 for any other
\* type; it never has zero units on and never more than its declared count.
C21_UnitAllocation ==
    (Returned /\ people_count # 0) =>
        \A i \in Indices :
            LET type == upper(appliances[i].appliance_type)
                per_unit_cap == CASE type = "AC" -> 6
                                  [] type = "FAN" -> 4
                                  [] type = "LIGHT" -> 2
                                  [] OTHER -> 1
                needed == Ceil(people_count, per_unit_cap)
                declared == appliances[i].number_of_appliances
            IN  result.states[i].status = "ON" =>
                    /\ UnitsOn(i) = Max(1, Min(needed, declared))
                    /\ UnitsOn(i) >= 1
                    /\ UnitsOn(i) <= declared

\* The room sizes and the readings' confidence and time a call is compared
\* with.
CapacityVariants == {1, 2, 5, 20, 50}

OccupancyVariants ==
    {[occupancy EXCEPT !.confidence = c, !.detected_at = d] :
        c \in {0, 50, 100}, d \in {0, 9}}

Decisions(states) ==
    [i \in 1..Len(states) |->
        [status |-> states[i].status, level |-> states[i].level,
         setpoint_c |-> states[i].setpoint_c,
         estimated_power_watts |-> states[i].estimated_power_watts]]

\* C22: a call that returns gives the same status, level, setpoint_c and
\* estimated_power_watts as the call on a room that differs only in
\* max_capacity (> 0) and an occupancy that differs only in confidence or
\* detected_at.
C22_CapacityIndependent ==
    Returned =>
        \A cap \in CapacityVariants : \A occ \in OccupancyVariants :
            LET other == optimize_room([room EXCEPT !.max_capacity = cap], occ,
                                       appliances, outside_temp_c, MTA_1, now)
            IN  /\ other.error = NoError
                /\ Decisions(other.states) = Decisions(result.states)

\* Five occupants in the test suite's room of 5 seats: the load factor is 1,
\* it is 1/4 in the room of 20 seats, and the fan runs two units of four at
\* level 6 in both.
C22_Witness ==
    /\ Returned
    /\ room.max_capacity = 5
    /\ people_count = 5
    /\ appliances = TestAppliances
    /\ result.states[2].status = "ON"
    /\ result.states[2].level = Some(6)
    /\ load_factor_of(people_count, 5) # load_factor_of(people_count, 20)

\* The requests served before the k-th that inserted a row for its room.
InsertsBefore(k) ==
    {j \in 1..(k - 1) : /\ served[j].room_id = served[k].room_id
                        /\ served[j].outcome = "inserted"}

\* An insert for the room of the k-th request succeeded less than 60 seconds
\* before it.
InsideWindow(k) ==
    \E j \in InsertsBefore(k) : served[k].at - served[j].at < 60

\* The rows the served requests have inserted, in order.
InsertedRows ==
    SelectSeq(served, LAMBDA entry : entry.outcome = "inserted")

\* C23: for each room any two successful inserts into occupancy_logs are at
\* least 60 seconds apart; a request less than 60 seconds after the room's
\* last successful insert inserts nothing; a request is held back by nothing
\* else, neither by a failed insert nor by the requests of another room.
C23_InsertRateLimit ==
    pc = "serving" =>
        /\ \A k \in 1..Len(served) :
              /\ served[k].outcome = "inserted" => ~InsideWindow(k)
              /\ InsideWindow(k) => served[k].outcome \in {"skipped", "error"}
              /\ served[k].outcome = "skipped" => InsideWindow(k)
        /\ Len(db.occupancy_logs) = Len(InsertedRows)
        /\ \A n \in 1..Len(db.occupancy_logs) :
              /\ db.occupancy_logs[n].room_id = InsertedRows[n].room_id
              /\ db.occupancy_logs[n].detected_at = InsertedRows[n].at
        /\ \A n, o \in 1..Len(db.occupancy_logs) :
              (n < o /\ db.occupancy_logs[n].room_id = db.occupancy_logs[o].room_id) =>
                  db.occupancy_logs[o].detected_at
                      - db.occupancy_logs[n].detected_at >= 60

\* Room "1" inserts at second 0, is held back at second 59 and inserts
\* again at second 88.
C23_Witness ==
    /\ pc = "serving"
    /\ Len(served) = 3
    /\ served[1] = [room_id |-> "1", at |-> 0, outcome |-> "inserted"]
    /\ served[2] = [room_id |-> "1", at |-> 59, outcome |-> "skipped"]
    /\ served[3] = [room_id |-> "1", at |-> 88, outcome |-> "inserted"]
    /\ Len(db.occupancy_logs) = 2

\* C24: with the database configured, accept_optimization on a stored id
\* answers 200, marks the optimization is_accepted and lowers every active
\* count by the number of OFF recommendations of its type (only the one with
\* the given appliance_id when one is given), never below zero; an unknown id
\* is answered 404.
C24_AcceptApplies ==
    (pc = "serving" /\ supabase /\ served # <<>>) =>
        LET last == served[Len(served)]
            before == last.before
        IN  IF last.optimization_id \in DOMAIN before.optimizations
              THEN /\ last.status = 200
                   /\ db.optimizations[last.optimization_id].is_accepted
                   /\ db.room_systems =
                         apply_decrements(
                             before.room_systems,
                             system_decrements(
                                 before.optimizations[last.optimization_id].optimization_data,
                                 last.appliance_id))
                   /\ \A t \in DOMAIN db.room_systems : db.room_systems[t] >= 0
              ELSE last.status = 404

====
